---- MODULE Spec2Model ----
(***************************************************************************)
(* Message synchronization engine of the chat page                         *)
(* (src/src/app/chat/page.tsx): history load, optimistic send, realtime    *)
(* push events and the subscription lifecycle, as one state machine.       *)
(*                                                                         *)
(* React runs one handler or callback at a time; a state update followed   *)
(* by the re-render, the effect cleanup and the effect body is one step.   *)
(* The server (persistent store and push feed) is the environment: it      *)
(* assigns ids and created_at, answers queries and emits INSERT events.    *)
(* Client and server share one logical clock `now`, which every timestamp  *)
(* taken advances, so created_at follows the order of creation.            *)
(***************************************************************************)
EXTENDS Integers, Sequences, FiniteSets, TLC

\* ---------------------------------------------------------------- bounds
\* conversation selections, submissions of the send form and rows inserted
\* by other users, together
MaxOps == 3

\* ------------------------------------------------------------- universe
Null == "null"
Me == "u1"
Others == {"u2"}
Contents == {"hi", "yo"}
OtherContent == "hey"
Groups == {"g1"}

UserRank(u) == CASE u = "u1" -> 1 [] u = "u2" -> 2 [] OTHER -> 0

\* ChatListItem: { type, data, id }; the id `dm-<user>` / `group-<n>` is
\* determined by type and data, so equality of items is equality of records.
DmChat(u) == [type |-> "dm", data |-> u]
GroupChat(g) == [type |-> "group", data |-> g]
NoChat == [type |-> "none", data |-> Null]

\* Message ids: a number issued by the store, or a string `temp-...`.
DbId(n) == [temp |-> FALSE, n |-> n]
TempId(n) == [temp |-> TRUE, n |-> n]
IsTemp(id) == id.temp

VARIABLES
  currentUser,    \* Profile id | Null
  selectedChat,   \* ChatListItem | NoChat
  chatList,       \* set of ChatListItem
  messages,       \* Seq(Message): the message store
  db,             \* Seq(Message): rows of the messages table, db[i].id = DbId(i)
  now,            \* logical clock
  sends,          \* handleSendMessage calls awaiting the insert's answer
  nextTemp,       \* number of temp ids issued so far
  loads,          \* fetchMessages calls awaiting the query's answer
  nSelects,       \* number of effect runs with a selected chat
  channels,       \* live realtime channels of the supabase client
  effectChannel,  \* `channel` of the current effect closure | NoChannel
  pushed,         \* INSERT events emitted to a live channel
  last            \* the step taken last (what the console log shows last)

vars == <<currentUser, selectedChat, chatList, messages, db, now, sends,
          nextTemp, loads, nSelects, channels, effectChannel, pushed, last>>

NoChannel == [name |-> [kind |-> "none", a |-> Null, b |-> Null],
              chat |-> NoChat, user |-> Null]

OtherRows(rows) == Cardinality({i \in 1..Len(rows) : rows[i].sender_id # Me})

\* selections + sends + other users' inserts so far
OpsDone == nSelects + nextTemp + OtherRows(db)

\* --------------------------------------------------------- pure functions

\* (a, b) => new Date(a.created_at).getTime() - new Date(b.created_at).getTime()
\* Array.prototype.sort is stable: m goes after every entry not later than it.
RECURSIVE InsertByTime(_, _)
InsertByTime(s, m) ==
  IF s = <<>> THEN <<m>>
  ELSE IF Head(s).created_at <= m.created_at
       THEN <<Head(s)>> \o InsertByTime(Tail(s), m)
       ELSE <<m>> \o s

RECURSIVE StableSort(_)
StableSort(s) ==
  IF s = <<>> THEN <<>>
  ELSE InsertByTime(StableSort(SubSeq(s, 1, Len(s) - 1)), s[Len(s)])

Unsorted(s) == s

SortByCreatedAt(s) == StableSort(s)

\* a temp entry with the content and sender of m
TempMatch(msg, m) ==
  IsTemp(msg.id) /\ msg.content = m.content /\ msg.sender_id = m.sender_id

messageExists(msgs, m) ==
  \E i \in 1..Len(msgs) : msgs[i].id = m.id \/ TempMatch(msgs[i], m)

\* the setMessages updater of handleRealtimeMessageCallback
RealtimeMergeAppendAlways(prev, m, me) == SortByCreatedAt(Append(prev, m))

RealtimeMerge(prev, m, me) ==
  IF m.sender_id # me
  THEN IF messageExists(prev, m) THEN prev
       ELSE SortByCreatedAt(Append(prev, m))
  ELSE LET hit(msg) == TempMatch(msg, m) \/ msg.id = m.id
           replaced == \E i \in 1..Len(prev) : hit(prev[i])
           updatedMessages ==
             [i \in 1..Len(prev) |-> IF hit(prev[i]) THEN m ELSE prev[i]]
       IN IF ~replaced /\ ~messageExists(updatedMessages, m)
          THEN SortByCreatedAt(Append(updatedMessages, m))
          ELSE SortByCreatedAt(updatedMessages)

isForActiveChatAnyTag(m, chat, me) ==
  IF chat.type = "dm"
  THEN \/ (m.sender_id = me /\ m.recipient_id = chat.data)
       \/ (m.sender_id = chat.data /\ m.recipient_id = me)
  ELSE chat.type = "group" /\ m.group_id = chat.data

isForActiveChat(m, chat, me) ==
  IF chat.type = "dm"
  THEN /\ \/ (m.sender_id = me /\ m.recipient_id = chat.data)
          \/ (m.sender_id = chat.data /\ m.recipient_id = me)
       /\ m.group_id = Null
  ELSE IF chat.type = "group"
       THEN m.group_id = chat.data /\ m.recipient_id = Null
       ELSE FALSE

\* handleRealtimeMessageCallback with the currentUser and selectedChat of
\* the render that created it
handleRealtimeMessageCallback(prev, m, chat, me) ==
  IF me = Null \/ chat = NoChat THEN prev
  ELSE IF ~isForActiveChat(m, chat, me) THEN prev
  ELSE RealtimeMerge(prev, m, me)

\* the listener registered on the dm channel
DmListenerAccepts(m, chat, me) ==
  /\ chat # NoChat /\ chat.type = "dm"
  /\ me # Null /\ chat.data # Null
  /\ \/ (m.sender_id = me /\ m.recipient_id = chat.data)
     \/ (m.sender_id = chat.data /\ m.recipient_id = me)
  /\ m.group_id = Null

\* whether the listener lets the event through to the merge (otherwise it
\* logs "filtered out" / "not for active chat, ignored")
OnPostgresChangeAccepts(ch, m) ==
  /\ ch.chat.type = "dm" => DmListenerAccepts(m, ch.chat, ch.user)
  /\ ch.user # Null /\ ch.chat # NoChat
  /\ isForActiveChat(m, ch.chat, ch.user)

OnPostgresChangeUnchecked(ch, m, prev) == RealtimeMerge(prev, m, ch.user)

\* the (payload) => ... callback given to channel.on, dm or group
OnPostgresChange(ch, m, prev) ==
  IF ch.chat.type = "dm"
  THEN IF DmListenerAccepts(m, ch.chat, ch.user)
       THEN handleRealtimeMessageCallback(prev, m, ch.chat, ch.user)
       ELSE prev
  ELSE handleRealtimeMessageCallback(prev, m, ch.chat, ch.user)

\* setMessages((prev) => [...prev, tempMessage].sort(...))
OptimisticAppend(prev, temp) == SortByCreatedAt(Append(prev, temp))

\* setMessages((prev) => prev.filter((msg) => msg.id !== tempMessage.id))
SendRollbackKeepAll(prev, tempId) == prev

SendRollbackByContent(prev, tempId) ==
  SelectSeq(prev, LAMBDA msg :
    ~\E i \in 1..Len(prev) : prev[i].id = tempId /\ TempMatch(msg, prev[i]))

SendRollback(prev, tempId) == SelectSeq(prev, LAMBDA msg : msg.id # tempId)

\* the setMessages updater of the insert's success branch
SendConfirmIdOnly(prev, tempId, data) ==
  SortByCreatedAt(
    [i \in 1..Len(prev) |-> IF prev[i].id = data.id THEN data ELSE prev[i]])

SendConfirm(prev, tempId, data) ==
  IF \E i \in 1..Len(prev) : prev[i].id = data.id
  THEN SortByCreatedAt(
         [i \in 1..Len(prev) |-> IF prev[i].id = data.id THEN data ELSE prev[i]])
  ELSE SortByCreatedAt(
         [i \in 1..Len(prev) |-> IF prev[i].id = tempId THEN data ELSE prev[i]])

\* dbPayload of handleSendMessage
DbPayload(content, chat, me) ==
  IF chat.type = "dm"
  THEN [content |-> content, sender_id |-> me,
        recipient_id |-> chat.data, group_id |-> Null]
  ELSE [content |-> content, sender_id |-> me,
        recipient_id |-> Null, group_id |-> chat.data]

Row(id, payload, t) ==
  [id |-> id, content |-> payload.content, created_at |-> t,
   sender_id |-> payload.sender_id, recipient_id |-> payload.recipient_id,
   group_id |-> payload.group_id]

\* the filter of fetchMessages
QueryFilter(m, chat, me) ==
  IF chat.type = "dm"
  THEN \/ (m.sender_id = me /\ m.recipient_id = chat.data /\ m.group_id = Null)
       \/ (m.sender_id = chat.data /\ m.recipient_id = me /\ m.group_id = Null)
  ELSE m.group_id = chat.data /\ m.recipient_id = Null

\* query.order('created_at', { ascending: true }) over the rows present
\* when the store runs the query (the first k rows)
HistoryQuery(rows, k, chat, me) ==
  StableSort(SelectSeq(SubSeq(rows, 1, k), LAMBDA m : QueryFilter(m, chat, me)))

\* setMessages(data || []) of fetchMessages: the result as it arrived
SetLoaded(data) == data

\* the orders in which a store that ignores the order clause may return rows
Orders(rows) ==
  LET n == Len(rows)
      perms == {f \in [1..n -> 1..n] : \A i, j \in 1..n : f[i] = f[j] => i = j}
  IN {[i \in 1..n |-> rows[f[i]]] : f \in perms}

\* channelName
ChannelNameUnsorted(chat, me) ==
  IF chat.type = "dm"
  THEN [kind |-> "messages-dm", a |-> me, b |-> chat.data]
  ELSE [kind |-> "messages-group", a |-> chat.data, b |-> Null]

ChannelName(chat, me) ==
  IF chat.type = "dm"
  THEN LET lo == IF UserRank(me) <= UserRank(chat.data) THEN me ELSE chat.data
           hi == IF UserRank(me) <= UserRank(chat.data) THEN chat.data ELSE me
       IN [kind |-> "messages-dm", a |-> lo, b |-> hi]
  ELSE [kind |-> "messages-group", a |-> chat.data, b |-> Null]

\* the `filter` option of channel.on: none for a dm, group_id=eq.<id> for a group
ServerFilter(ch, m) ==
  IF ch.chat.type = "group" THEN m.group_id = ch.chat.data ELSE TRUE

\* supabase.removeChannel(channel) in the effect's cleanup
CleanupKeepChannel(chs, ch) == chs

Cleanup(chs, ch) == chs \ {ch}

\* events the feed emits for a new row: one per live channel whose filter passes
EventsFor(chs, m) ==
  {[ch |-> c.name, id |-> m.id.n] : c \in {x \in chs : ServerFilter(x, m)}}

\* ------------------------------------------------------------------ Init
Init ==
  /\ currentUser = Null
  /\ selectedChat = NoChat
  /\ chatList = {}
  /\ messages = <<>>
  /\ db = <<>>
  /\ now = 1
  /\ sends = {}
  /\ nextTemp = 0
  /\ loads = {}
  /\ nSelects = 0
  /\ channels = {}
  /\ effectChannel = NoChannel
  /\ pushed = {}
  /\ last = "Init"

\* --------------------------------------------------------------- actions

\* The body of the effect for chat c and user: fetchMessages() is started
\* and the channel of the chat is opened and subscribed, after the cleanup
\* of the previous run.  The store is not touched.
EffectBody(c, user) ==
  LET ch == [name |-> ChannelName(c, user), chat |-> c, user |-> user]
      kept == Cleanup(channels, effectChannel)
  IN /\ messages' = messages
     /\ nSelects' = nSelects + 1
     /\ loads' = loads \cup {[n |-> nSelects + 1, chat |-> c, user |-> user,
                              from |-> Len(db)]}
     /\ channels' = kept \cup {ch}
     /\ effectChannel' = ch
     /\ pushed' = {e \in pushed : \E x \in kept : x.name = e.ch}

RunEffectUnguarded(c, user) == EffectBody(c, user)

\* The effect on [selectedChat, currentUser, handleRealtimeMessageCallback],
\* run after a render with selectedChat = c and currentUser = user: the
\* cleanup of the previous run, then either setMessages([]) and nothing
\* else (no chat or no user) or the body.
RunEffect(c, user) ==
  IF c = NoChat \/ user = Null
  THEN LET kept == Cleanup(channels, effectChannel)
       IN /\ messages' = <<>>
          /\ channels' = kept
          /\ effectChannel' = NoChannel
          /\ pushed' = {e \in pushed : \E x \in kept : x.name = e.ch}
          /\ UNCHANGED <<loads, nSelects>>
  ELSE EffectBody(c, user)

\* fetchData: the profile and the chat list arrive; the effect re-runs with
\* the user set and no chat selected.
FetchData ==
  /\ currentUser = Null
  /\ currentUser' = Me
  /\ chatList' = {DmChat(u) : u \in Others} \cup {GroupChat(g) : g \in Groups}
  /\ RunEffect(selectedChat, Me)
  /\ last' = "FetchData"
  /\ UNCHANGED <<selectedChat, db, now, sends, nextTemp>>

\* onClick of a chat list item whatever the selection: setSelectedChat(chat)
\* and the effect of the new render
SelectChatUnguarded(c) ==
  /\ currentUser # Null
  /\ c \in chatList
  /\ OpsDone < MaxOps
  /\ selectedChat' = c
  /\ RunEffect(c, currentUser)
  /\ last' = "SelectChat"
  /\ UNCHANGED <<currentUser, chatList, db, now, sends, nextTemp>>

\* onClick of a chat list item: if (selectedChat?.id !== chat.id)
\* setSelectedChat(chat); a click on the selected item does nothing
SelectChat(c) ==
  /\ currentUser # Null
  /\ c \in chatList
  /\ IF selectedChat = c
     THEN /\ last' = "SelectSame"
          /\ UNCHANGED <<currentUser, selectedChat, chatList, messages, db, now,
                         sends, nextTemp, loads, nSelects, channels,
                         effectChannel, pushed>>
     ELSE /\ OpsDone < MaxOps
          /\ selectedChat' = c
          /\ RunEffect(c, currentUser)
          /\ last' = "SelectChat"
          /\ UNCHANGED <<currentUser, chatList, db, now, sends, nextTemp>>

\* fetchMessages resolves with data: setMessages(data || [])
LoadDone(l, k) ==
  /\ l \in loads
  /\ k \in l.from..Len(db)
  /\ messages' = SetLoaded(HistoryQuery(db, k, l.chat, l.user))
  /\ loads' = loads \ {l}
  /\ last' = "LoadDone"
  /\ UNCHANGED <<currentUser, selectedChat, chatList, db, now, sends, nextTemp,
                 nSelects, channels, effectChannel, pushed>>

\* fetchMessages resolves with an error: console.error only
LoadError(l) ==
  /\ l \in loads
  /\ loads' = loads \ {l}
  /\ last' = "LoadError"
  /\ UNCHANGED <<currentUser, selectedChat, chatList, messages, db, now, sends,
                 nextTemp, nSelects, channels, effectChannel, pushed>>

\* handleSendMessage up to the await of the insert
SendMessage(content) ==
  /\ selectedChat # NoChat
  /\ currentUser # Null
  /\ OpsDone < MaxOps
  /\ LET payload == DbPayload(content, selectedChat, currentUser)
         tempMessage == Row(TempId(nextTemp + 1), payload, now)
     IN /\ messages' = OptimisticAppend(messages, tempMessage)
        /\ sends' = sends \cup {[tid |-> nextTemp + 1, payload |-> payload,
                                 chat |-> selectedChat, data |-> 0]}
  /\ nextTemp' = nextTemp + 1
  /\ now' = now + 1
  /\ last' = "SendMessage"
  /\ UNCHANGED <<currentUser, selectedChat, chatList, db, loads, nSelects,
                 channels, effectChannel, pushed>>

\* the store inserts the row of a send and the feed emits its event
DbInsert(s) ==
  /\ s \in sends
  /\ s.data = 0
  /\ LET row == Row(DbId(Len(db) + 1), s.payload, now)
     IN /\ db' = Append(db, row)
        /\ pushed' = pushed \cup EventsFor(channels, row)
        /\ sends' = (sends \ {s}) \cup {[s EXCEPT !.data = Len(db) + 1]}
  /\ now' = now + 1
  /\ last' = "DbInsert"
  /\ UNCHANGED <<currentUser, selectedChat, chatList, messages, nextTemp, loads,
                 nSelects, channels, effectChannel>>

\* another user's client inserts a row: to me, to a group I am in, or (the
\* table is written by clients the page does not control) with both a
\* recipient and a group, or with neither
OtherInsert(sender, group, recipient) ==
  /\ OpsDone < MaxOps
  /\ LET payload == [content |-> OtherContent, sender_id |-> sender,
                     recipient_id |-> recipient,
                     group_id |-> group]
         row == Row(DbId(Len(db) + 1), payload, now)
     IN /\ db' = Append(db, row)
        /\ pushed' = pushed \cup EventsFor(channels, row)
  /\ now' = now + 1
  /\ last' = "OtherInsert"
  /\ UNCHANGED <<currentUser, selectedChat, chatList, messages, sends, nextTemp,
                 loads, nSelects, channels, effectChannel>>

\* handleSendMessage resumes with data
SendSuccess(s) ==
  /\ s \in sends
  /\ s.data # 0
  /\ messages' = SendConfirm(messages, TempId(s.tid), db[s.data])
  /\ sends' = sends \ {s}
  /\ last' = "SendSuccess"
  /\ UNCHANGED <<currentUser, selectedChat, chatList, db, now, nextTemp, loads,
                 nSelects, channels, effectChannel, pushed>>

\* handleSendMessage resumes with an error (the row was not inserted)
SendFailure(s) ==
  /\ s \in sends
  /\ s.data = 0
  /\ messages' = SendRollback(messages, TempId(s.tid))
  /\ sends' = sends \ {s}
  /\ last' = "SendFailure"
  /\ UNCHANGED <<currentUser, selectedChat, chatList, db, now, nextTemp, loads,
                 nSelects, channels, effectChannel, pushed>>

\* an INSERT event reaches the listener of its channel; the feed delivers at
\* least once, so an event emitted to a live channel may reach it again at
\* any later time (or never again) and `pushed` keeps it
RealtimeEvent(e, ch) ==
  /\ e \in pushed
  /\ ch \in channels
  /\ ch.name = e.ch
  /\ messages' = OnPostgresChange(ch, db[e.id], messages)
  /\ last' = IF OnPostgresChangeAccepts(ch, db[e.id])
              THEN "RealtimeEvent" ELSE "RealtimeIgnored"
  /\ UNCHANGED <<currentUser, selectedChat, chatList, db, now, sends, nextTemp,
                 loads, nSelects, channels, effectChannel, pushed>>

\* The texts the user types next: one the state already holds, or one fresh
\* text (fresh texts are interchangeable: nothing compares a text with
\* anything but another message's text).
NextContents ==
  LET used == {s.payload.content : s \in sends}
                \cup {db[i].content : i \in 1..Len(db)}
                \cup {messages[i].content : i \in 1..Len(messages)}
      fresh == Contents \ used
  IN (Contents \cap used) \cup (IF fresh = {} THEN {} ELSE {CHOOSE c \in fresh : TRUE})

Next ==
  \/ FetchData
  \/ \E c \in chatList : SelectChat(c)
  \/ \E l \in loads : \E k \in 0..Len(db) : LoadDone(l, k)
  \/ \E l \in loads : LoadError(l)
  \/ \E c \in NextContents : SendMessage(c)
  \/ \E s \in sends : DbInsert(s)
  \/ \E u \in Others : \E g \in Groups \cup {Null} : \E r \in {Me, Null} :
       OtherInsert(u, g, r)
  \/ \E s \in sends : SendSuccess(s)
  \/ \E s \in sends : SendFailure(s)
  \/ \E e \in pushed : \E ch \in channels : RealtimeEvent(e, ch)

Spec == Init /\ [][Next]_vars

\* The program when the calls of the persistent store return: while an
\* insert is pending, some pending insert resolves, with the row or with an
\* error.  (This is weaker than every call returning, and enough here.)
InsertReturns == \E s \in sends : SendSuccess(s) \/ SendFailure(s)

SpecReturns == Spec /\ WF_vars(InsertReturns)

\* The same program over a persistent store that may return the rows of a
\* query in any order: fetchMessages resolves with data in the order the store
\* chose.
LoadDoneAnyOrder(l, k, data) ==
  /\ l \in loads
  /\ k \in l.from..Len(db)
  /\ data \in Orders(HistoryQuery(db, k, l.chat, l.user))
  /\ messages' = SetLoaded(data)
  /\ loads' = loads \ {l}
  /\ last' = "LoadDone"
  /\ UNCHANGED <<currentUser, selectedChat, chatList, db, now, sends, nextTemp,
                 nSelects, channels, effectChannel, pushed>>

NextAnyOrder ==
  \/ Next
  \/ \E l \in loads : \E k \in 0..Len(db) :
       \E data \in Orders(HistoryQuery(db, k, l.chat, l.user)) :
         LoadDoneAnyOrder(l, k, data)

SpecAnyOrder == Init /\ [][NextAnyOrder]_vars

\* ------------------------------------------------- vocabulary of the claims

Users == {Me} \cup Others

HasId(msgs, id) == \E i \in 1..Len(msgs) : msgs[i].id = id

CountId(msgs, id) == Cardinality({i \in 1..Len(msgs) : msgs[i].id = id})

NumTemps(msgs) == Cardinality({i \in 1..Len(msgs) : IsTemp(msgs[i].id)})

Persisted(msgs) == SelectSeq(msgs, LAMBDA m : ~IsTemp(m.id))

\* m is a message of conversation chat, as seen by user me: the direct pair
\* in either direction with no group tag, or the group tag with no recipient
InConversation(m, chat, me) ==
  \/ /\ chat.type = "dm"
     /\ m.group_id = Null
     /\ {m.sender_id, m.recipient_id} = {me, chat.data}
  \/ /\ chat.type = "group"
     /\ m.group_id = chat.data
     /\ m.recipient_id = Null

\* ------------------------------------------------------------------ C1
\* C1: in every reachable state of the store no two entries share the same
\* persisted (non-temporary) id.
C1_NoDuplicatePersistedIds ==
  \A i, j \in 1..Len(messages) :
    (i # j /\ ~IsTemp(messages[i].id)) => messages[i].id # messages[j].id

\* ------------------------------------------------------------------ C2
\* C2: after every merge application (optimistic append, push-event merge,
\* send-success reconciliation) the store is sorted ascending by created_at.
C2_SortedByCreatedAt ==
  \A i \in 1..(Len(messages) - 1) :
    messages[i].created_at <= messages[i + 1].created_at

\* a merge has just run on a store whose entries have different timestamps
C2_Witness ==
  /\ last \in {"SendMessage", "RealtimeEvent", "SendSuccess"}
  /\ Len(messages) >= 2
  /\ messages[1].created_at < messages[Len(messages)].created_at

\* ------------------------------------------------------------------ C3
\* C3: for the store of every reachable state and every message M the active
\* conversation accepts (from the current user or from another user), merging
\* M as a push event twice gives the same store as merging it once.
C3_MergeIdempotent ==
  \A i \in 1..Len(db) :
    isForActiveChat(db[i], selectedChat, currentUser) =>
      LET once == RealtimeMerge(messages, db[i], currentUser)
      IN RealtimeMerge(once, db[i], currentUser) = once

\* an event has been merged into the store and is still in flight, so it
\* will be merged a second time
C3_Witness ==
  /\ last = "RealtimeEvent"
  /\ \E e \in pushed :
       /\ HasId(messages, DbId(e.id))
       /\ isForActiveChat(db[e.id], selectedChat, currentUser)

\* ------------------------------------------------------------------ C4
\* C4: for a send in flight whose temporary entry is in the store, the
\* send-success callback and the push event of its record may be applied in
\* either order: the first replaces the temporary entry by the record, the
\* second changes nothing, and both orders end in the same store.
C4_EitherOrder ==
  \A s \in sends :
    (/\ s.data # 0
     /\ HasId(messages, TempId(s.tid))
     /\ isForActiveChat(db[s.data], selectedChat, currentUser)) =>
      LET d == db[s.data]
          viaSuccess == SendConfirm(messages, TempId(s.tid), d)
          viaPush == RealtimeMerge(messages, d, currentUser)
      IN /\ HasId(viaSuccess, d.id) /\ ~HasId(viaSuccess, TempId(s.tid))
         /\ HasId(viaPush, d.id) /\ ~HasId(viaPush, TempId(s.tid))
         /\ RealtimeMerge(viaSuccess, d, currentUser) = viaSuccess
         /\ SendConfirm(viaPush, TempId(s.tid), d) = viaPush
         /\ viaSuccess = viaPush

\* ------------------------------------------------------------------ C5
\* C5: for every send that succeeds, exactly one temporary entry is removed
\* and exactly one confirmed entry with its content and sender appears; the
\* number of entries does not increase.  Stated of the two steps that retire
\* a temporary entry: once the success callback has run the store holds the
\* record once and the temporary entry no more, and neither step removes
\* more than one temporary entry.
C5_TempRetirement ==
  [][/\ \A s \in sends \ sends' :
          last' = "SendSuccess" =>
            /\ ~HasId(messages', TempId(s.tid))
            /\ CountId(messages', DbId(s.data)) = 1
            /\ \A i \in 1..Len(messages') :
                 messages'[i].id = DbId(s.data) =>
                   /\ messages'[i].content = s.payload.content
                   /\ messages'[i].sender_id = s.payload.sender_id
            /\ Len(messages') <= Len(messages)
     /\ last' \in {"SendSuccess", "RealtimeEvent"} =>
          NumTemps(messages) - NumTemps(messages') <= 1
    ]_vars

C7_Scoping ==
  [][(last' \in {"RealtimeEvent", "RealtimeIgnored"} /\ messages' # messages) =>
       \E e \in pushed :
         /\ InConversation(db[e.id], selectedChat, currentUser)
         /\ messages' = RealtimeMerge(messages, db[e.id], currentUser)
    ]_vars

\* an event that does not match the active conversation has just been dropped
C7_Witness ==
  /\ last = "RealtimeIgnored"
  /\ selectedChat # NoChat

\* ------------------------------------------------------------------ C8
\* C8: at most one push subscription is live at any time, and a live
\* subscription is the one opened for the currently selected conversation.
C8_OneLiveSubscription ==
  /\ Cardinality(channels) <= 1
  /\ \A ch \in channels :
       /\ ch.chat = selectedChat
       /\ ch.name = ChannelName(selectedChat, currentUser)
       /\ ch = effectChannel

\* a second conversation has been selected and its subscription is live
C8_Witness ==
  /\ nSelects >= 2
  /\ channels # {}

\* ------------------------------------------------------------------ C9
\* C9: the callback of a history load or of a send that was issued for a
\* conversation that is no longer active never writes a history result or a
\* confirmed message into the store.
C9_StaleCallbackDiscarded ==
  [][/\ \A l \in loads \ loads' :
          (last' = "LoadDone" /\ l.chat # selectedChat) =>
            \A i \in 1..Len(messages') :
              HasId(messages, messages'[i].id)
     /\ \A s \in sends \ sends' :
          (last' = "SendSuccess" /\ s.chat # selectedChat) =>
            \A i \in 1..Len(messages') :
              HasId(messages, messages'[i].id)
    ]_vars

\* ------------------------------------------------------------------ C10
\* C10: selecting a different conversation clears the store before the
\* history load is issued: right after the selection the store holds no
\* entry of the previously selected conversation.
C10_ClearedOnSwitch ==
  [][last' = "SelectChat" =>
       \A i \in 1..Len(messages') :
         InConversation(messages'[i], selectedChat', currentUser')
    ]_vars

\* ------------------------------------------------------------------ C11
\* C11: when the history load of the selected conversation fails, the
\* conversation is shown empty and no retry is issued: right after the
\* failure the store holds nothing but what the conversation itself received
\* since the load was issued (its pending sends and its newer records), and
\* no load has been started.
C11_EmptyAfterLoadFailure ==
  [][\A l \in loads \ loads' :
       (last' = "LoadError" /\ l.chat = selectedChat) =>
         /\ loads' \subseteq loads
         /\ \A i \in 1..Len(messages') :
              /\ InConversation(messages'[i], selectedChat, currentUser)
              /\ IsTemp(messages'[i].id) \/ messages'[i].id.n > l.from
    ]_vars

\* ------------------------------------------------------------------ C12
\* C12: after a successful history load the store is sorted ascending by
\* created_at, whatever the order in which the persistent store returned the
\* records.
C12_SortedAfterLoad ==
  [][last' = "LoadDone" =>
       \A i \in 1..(Len(messages') - 1) :
         messages'[i].created_at <= messages'[i + 1].created_at
    ]_vars

\* ------------------------------------------------------------------ C13
\* C13: in every reachable state, for every (sender, content) pair the store
\* holds at most one temporary entry: a second send with the same content
\* adds no temporary entry while the first is unconfirmed.
C13_OneTempPerContent ==
  \A i, j \in 1..Len(messages) :
    (/\ IsTemp(messages[i].id)
     /\ IsTemp(messages[j].id)
     /\ messages[i].sender_id = messages[j].sender_id
     /\ messages[i].content = messages[j].content) => i = j

\* ------------------------------------------------------------------ C14
\* C14: a temporary entry leaves the store only in a step of its own send:
\* the failure callback of that send deletes it, or the confirmed record of
\* that send (delivered by the push or by the success callback) takes its
\* place.  No other step and no other send's record removes it.
C14_TempLeavesByOwnSend ==
  [][\A n \in 1..nextTemp :
       (HasId(messages, TempId(n)) /\ ~HasId(messages', TempId(n))) =>
         \E s \in sends :
           /\ s.tid = n
           /\ \/ /\ last' = "SendFailure"
                 /\ s.data = 0
                 /\ s \notin sends'
              \/ /\ last' = "SendSuccess"
                 /\ s.data # 0
                 /\ s \notin sends'
                 /\ HasId(messages', DbId(s.data))
              \/ /\ last' = "RealtimeEvent"
                 /\ s.data # 0
                 /\ ~HasId(messages, DbId(s.data))
                 /\ HasId(messages', DbId(s.data))
    ]_vars

\* ------------------------------------------------------------------ C15
\* C15: when a send fails, only the temporary entry with that send's own
\* temporary id is removed: every other entry, another temporary entry of the
\* same sender and content included, stays, unchanged and in the same order.
C15_OnlyOwnTempRemoved ==
  [][\A s \in sends \ sends' :
       last' = "SendFailure" =>
         LET gone == {i \in 1..Len(messages) : messages[i].id = TempId(s.tid)}
         IN /\ Cardinality(gone) <= 1
            /\ Len(messages') = Len(messages) - Cardinality(gone)
            /\ \A i \in (1..Len(messages)) \ gone :
                 messages'[i - Cardinality({j \in gone : j < i})] = messages[i]
    ]_vars

\* the text of the first send of a run (see NextContents)
FirstContent == CHOOSE c \in Contents : TRUE

\* the first of two sends of the same text has just failed while the second
\* was pending: the history load is still in flight, so both temporary
\* entries were in the store, and the second one is still there
C15_Witness ==
  /\ last = "SendFailure"
  /\ nSelects = 1
  /\ loads # {}
  /\ db = <<>>
  /\ nextTemp = 2
  /\ \E s \in sends : s.tid = 2
  /\ Len(messages) = 1
  /\ messages[1].id = TempId(2)
  /\ messages[1].content = FirstContent

\* ------------------------------------------------------------------ C16
\* C16: selecting the conversation that is already active is a no-op: the
\* store, the live subscription and any history load in flight are unchanged,
\* and a new load and a new subscription are started only by a step that
\* changes the selected conversation.
C16_SelectSameIsNoOp ==
  [][/\ last' = "SelectSame" =>
          UNCHANGED <<selectedChat, messages, channels, effectChannel, loads,
                      pushed, sends>>
     /\ (nSelects' # nSelects \/ loads' \ loads # {}
           \/ channels' \ channels # {} \/ effectChannel' # effectChannel) =>
          selectedChat' # selectedChat
    ]_vars

\* the active conversation has just been clicked again while its history load
\* was in flight, its subscription live and a temporary entry in the store
C16_Witness ==
  /\ last = "SelectSame"
  /\ selectedChat # NoChat
  /\ loads # {}
  /\ channels # {}
  /\ messages # <<>>

\* ------------------------------------------------------------------ C17
\* C17: while no conversation is active, no subscription is live and none is
\* opened, no history load has been started, no event is in flight and the
\* store is empty; and in every state the cleanup that runs before the effect
\* takes its no-conversation branch closes every live subscription.
C17_NoChatNoSubscription ==
  /\ selectedChat = NoChat =>
       /\ channels = {}
       /\ effectChannel = NoChannel
       /\ loads = {}
       /\ pushed = {}
       /\ messages = <<>>
  /\ Cleanup(channels, effectChannel) = {}

\* the effect has run for a signed-in user with no conversation selected,
\* and another user's record has been inserted since
C17_Witness ==
  /\ selectedChat = NoChat
  /\ currentUser # Null
  /\ last = "OtherInsert"
  /\ db # <<>>

\* ------------------------------------------------------------------ C18
\* C18: the channel key is deterministic: the key of the direct conversation
\* computed by u for partner v equals the key computed by v for partner u,
\* the key of a group depends on the group only, and a group key never
\* equals a direct key.  In particular the key of the live subscription is
\* the key the other participant's client computes.
C18_ChannelKeyDeterministic ==
  /\ \A u, v \in Users :
       u # v => ChannelName(DmChat(v), u) = ChannelName(DmChat(u), v)
  /\ \A g \in Groups : \A u, v \in Users :
       /\ ChannelName(GroupChat(g), u) = ChannelName(GroupChat(g), v)
       /\ \A w \in Users : ChannelName(GroupChat(g), u) # ChannelName(DmChat(v), w)
  /\ \A ch \in channels :
       IF ch.chat.type = "dm"
       THEN ch.name = ChannelName(DmChat(ch.user), ch.chat.data)
       ELSE \A u \in Users : ch.name = ChannelName(ch.chat, u)

\* the subscription of a direct conversation is live
C18_Witness ==
  \E ch \in channels :
    /\ ch.chat.type = "dm"
    /\ ch.user # ch.chat.data
    /\ ch.chat = selectedChat

\* ------------------------------------------------------------------ C19
\* C19: when a message M of the current user that the active conversation
\* accepts has no entry with its id in the store and several temporary
\* entries match its sender and content, merging M replaces only the first
\* (oldest) of them: M stands at that entry's place once, and every other
\* matching temporary entry stays in the store.
C19_ReplacesOldestTempOnly ==
  \A n \in 1..Len(db) :
    LET M == db[n]
        hits == {i \in 1..Len(messages) : TempMatch(messages[i], M)}
        merged == RealtimeMerge(messages, M, currentUser)
    IN (/\ M.sender_id = currentUser
        /\ isForActiveChat(M, selectedChat, currentUser)
        /\ ~HasId(messages, M.id)
        /\ Cardinality(hits) >= 2) =>
         /\ CountId(merged, M.id) = 1
         /\ Len(merged) = Len(messages)
         /\ \A i \in hits :
              HasId(merged, messages[i].id) <=> (\E j \in hits : j < i)

\* ------------------------------------------------------------------ C20
\* C20: a persisted-id match takes precedence: when the store already holds
\* an entry with the id of an accepted message M, merging M replaces that
\* entry only; the number of entries is unchanged and every temporary entry,
\* one of the same sender and content included, stays in the store.
C20_IdMatchPrecedence ==
  \A n \in 1..Len(db) :
    LET M == db[n]
        merged == RealtimeMerge(messages, M, currentUser)
    IN (isForActiveChat(M, selectedChat, currentUser) /\ HasId(messages, M.id)) =>
         /\ Len(merged) = Len(messages)
         /\ CountId(merged, M.id) = CountId(messages, M.id)
         /\ \A i \in 1..Len(messages) :
              IsTemp(messages[i].id) => HasId(merged, messages[i].id)

\* ------------------------------------------------------------------ C21
\* C21: the send-success path applies the merge of a push event: when the
\* success callback of a send of the active conversation runs with the
\* confirmed record M, the store after it equals the store after merging M
\* as a push event (M appended when it has neither an id match nor a matching
\* temporary entry).
C21_SuccessIsMerge ==
  [][\A s \in sends \ sends' :
       (last' = "SendSuccess" /\ s.chat = selectedChat) =>
         messages' = RealtimeMerge(messages, db[s.data], currentUser)
    ]_vars

\* ------------------------------------------------------------------ C22
\* C22: the subscription of a selected conversation is opened only after its
\* history load has populated the store: no push event is merged into the
\* store while the history load of the current selection is still in flight.
C22_NoMergeBeforeLoad ==
  [][(last' = "RealtimeEvent" /\ messages' # messages) =>
       \A l \in loads : l.n # nSelects
    ]_vars

\* ------------------------------------------------------------------ C23
\* C23: every entry of the store has exactly one of recipient_id and
\* group_id non-null: a temporary entry built by a send in a direct
\* conversation has the partner as recipient and no group, one built in a
\* group has the group and no recipient, and the merge and the history load
\* accept no record that has both or neither.
C23_ExactlyOneTarget ==
  /\ \A i \in 1..Len(messages) :
       (messages[i].recipient_id = Null) # (messages[i].group_id = Null)
  /\ \A s \in sends :
       IF s.chat.type = "dm"
       THEN s.payload.recipient_id = s.chat.data /\ s.payload.group_id = Null
       ELSE s.payload.group_id = s.chat.data /\ s.payload.recipient_id = Null

\* the only record of the table carries the selected group and a recipient;
\* its event has just been dropped by the callback, and the store holds the
\* temporary entry of a send
C23_Witness ==
  /\ last = "RealtimeIgnored"
  /\ selectedChat.type = "group"
  /\ Len(db) = 1
  /\ db[1].group_id = selectedChat.data
  /\ db[1].recipient_id # Null
  /\ \E e \in pushed : e.id = 1
  /\ NumTemps(messages) = 1

\* ------------------------------------------------------------------ C24
\* C24: a temporary entry is in the store only while its send is in flight,
\* so once the success or failure callback of a send has run the store has
\* no entry with that send's temporary id, and with no send in flight it has
\* no temporary entry; and since the inserts return, every temporary entry
\* eventually leaves the store: again and again the store has none.
C24_TempsEventuallyGone ==
  /\ [](\A n \in 1..nextTemp :
          HasId(messages, TempId(n)) => \E s \in sends : s.tid = n)
  /\ []<>(NumTemps(messages) = 0)

\* both sends of the run have returned, the first confirmed, and the history
\* load is still in flight: the callbacks removed both temporary entries
C24_Witness ==
  /\ last \in {"SendSuccess", "SendFailure"}
  /\ nextTemp = 2
  /\ sends = {}
  /\ nSelects = 1
  /\ loads # {}
  /\ Len(db) = 1
  /\ NumTemps(messages) = 0
  /\ HasId(messages, DbId(1))

\* ------------------------------------------------------------------ C25
\* C25: when a send has succeeded in a conversation that stayed active (the
\* only one selected so far), then right after the push event of its
\* confirmed record is merged, the success callback having run before, the
\* store holds exactly one entry with the id of that record; and when that
\* record is the only one of the table, its event has just been merged and
\* the success callback has run, the next step keeps the entry: a message
\* that was sent is not missing from the view.
C25_SentOnceInView ==
  [][/\ \A e \in pushed :
          LET M == db[e.id]
          IN (/\ last' = "RealtimeEvent"
              /\ nSelects = 1
              /\ e.ch = effectChannel.name
              /\ M.sender_id = currentUser
              /\ InConversation(M, selectedChat, currentUser)
              /\ \A s \in sends : s.data # e.id
              /\ messages' = RealtimeMerge(messages, M, currentUser)) =>
               CountId(messages', M.id) = 1
     /\ (/\ last = "RealtimeEvent"
         /\ nSelects' = 1
         /\ Len(db) = 1
         /\ db[1].sender_id = currentUser
         /\ sends = {}
         /\ HasId(messages, DbId(1))) =>
          CountId(messages', DbId(1)) = 1
    ]_vars

\* ------------------------------------------------------------------ C26
\* C26: while the active conversation does not change, the completion of its
\* history load drops no entry of that conversation that is in the store: not
\* a persisted message accepted from a push event, and not the temporary
\* entry of a send still in flight.
C26_LoadKeepsEntries ==
  [][\A l \in loads \ loads' :
       (last' = "LoadDone" /\ l.n = nSelects /\ l.chat = selectedChat) =>
         \A i \in 1..Len(messages) :
           (/\ InConversation(messages[i], selectedChat, currentUser)
            /\ \/ ~IsTemp(messages[i].id)
               \/ \E s \in sends : TempId(s.tid) = messages[i].id) =>
             HasId(messages', messages[i].id)
    ]_vars

====
